---- MODULE Spec2Model ----
(***************************************************************************)
(* A model of the retrieval-augmented answering backend of rag-med:        *)
(* backend/rag_pipeline.py (ingestion, index, query) and backend/memory.py *)
(* (the conversation memory).                                              *)
(*                                                                         *)
(* The external collaborators are modelled by what the calls in the source *)
(* do: RecursiveCharacterTextSplitter (the chunker), Chroma (the persisted *)
(* vector index: a handle in process memory over a collection on disk),    *)
(* GoogleGenerativeAIEmbeddings (may fail), ChatGoogleGenerativeAI (may    *)
(* fail, answers nondeterministically), ConversationalRetrievalChain and   *)
(* ConversationBufferMemory.  Constructors of these objects do no I/O and  *)
(* are modelled as total in Spec; the calls that reach a service may fail. *)
(* SpecBuildFails adds the runs in which create_qa_chain raises, and       *)
(* SpecServer takes the handlers of main.py step by step on the event loop.*)
(***************************************************************************)
EXTENDS Integers, Sequences, FiniteSets

VARIABLES
    _vectorstore,    \* rag_pipeline._vectorstore: None or the Chroma handle
    _qa_chain,       \* rag_pipeline._qa_chain: None or the chain
    _global_memory,  \* memory._global_memory: None or the buffer's messages
    disk_exists,     \* Path(VECTORSTORE_PATH).exists()
    index,           \* the entries of the persisted Chroma collection
    last,            \* what the most recent call did and returned
    appended,        \* history: turns appended since the last clear
    ingested,        \* history: chunks_count summed since the last reset
    fresh,           \* history: a reset happened and no add succeeded since
    splitter,        \* the chunking step taken alone: input, config, output
    loop             \* the server's event loop: each request's position

vars == << _vectorstore, _qa_chain, _global_memory, disk_exists, index, last,
           appended, ingested, fresh, splitter, loop >>

(***************************************************************************)
(* Bounds of the model.                                                    *)
(***************************************************************************)
MaxDocLen == 5
MaxChunkSize == 3
MaxIndex == 5
MaxTurns == 2
MaxBatch == 2

(***************************************************************************)
(* Program constants.  CHUNK_SIZE and CHUNK_OVERLAP are 1000 and 200 in    *)
(* the source; the model keeps overlap < size at a scale its texts reach.  *)
(***************************************************************************)
CHUNK_SIZE == 3
CHUNK_OVERLAP == 1
K == 4

SP == " "
NL == "\n"
Chars == {"a", SP, NL}

IsWhitespace(c) == c \in {SP, NL}

\* RecursiveCharacterTextSplitter's default separators: "\n\n", "\n", " ", ""
Separators == << <<NL, NL>>, <<NL>>, <<SP>>, <<>> >>

Range(s) == {s[i] : i \in DOMAIN s}

(***************************************************************************)
(* The chunker.  A piece of a document is a pair <<lo, hi>> of positions   *)
(* (the text doc[lo..hi]); the splitter only cuts and rejoins consecutive  *)
(* pieces with the empty separator (keep_separator=True), so every chunk   *)
(* is such a pair.                                                         *)
(***************************************************************************)
PieceLen(p) == p[2] - p[1] + 1

\* sep occurs in doc at position i, within ..hi
OccursAt(doc, sep, i, hi) ==
    /\ i + Len(sep) - 1 <= hi
    /\ \A j \in 1..Len(sep) : doc[i + j - 1] = sep[j]

\* re.search(separator, text) on the piece lo..hi
Found(doc, sep, lo, hi) == \E i \in lo..hi : OccursAt(doc, sep, i, hi)

\* the starts of the non-overlapping occurrences re.split cuts at, left to right
RECURSIVE Cuts(_, _, _, _)
Cuts(doc, sep, i, hi) ==
    IF i + Len(sep) - 1 > hi THEN << >>
    ELSE IF OccursAt(doc, sep, i, hi)
         THEN <<i>> \o Cuts(doc, sep, i + Len(sep), hi)
         ELSE Cuts(doc, sep, i + 1, hi)

\* _split_text_with_regex(text, separator, keep_separator=True): the text before
\* the first separator, then each separator with the text that follows it; empty
\* strings dropped.  The empty separator gives list(text).
SplitWithRegex(doc, sep, lo, hi) ==
    IF sep = << >>
    THEN [i \in 1..(hi - lo + 1) |-> <<lo + i - 1, lo + i - 1>>]
    ELSE LET cuts == Cuts(doc, sep, lo, hi)
             starts == <<lo>> \o cuts
             all == [i \in 1..Len(starts) |->
                        << starts[i],
                           IF i < Len(starts) THEN starts[i + 1] - 1 ELSE hi >>]
         IN  SelectSeq(all, LAMBDA p : PieceLen(p) > 0)

\* str.strip() of doc[lo..hi]; the result is empty when lo > hi
RECURSIVE StripLeft(_, _, _)
StripLeft(doc, lo, hi) ==
    IF lo <= hi /\ IsWhitespace(doc[lo]) THEN StripLeft(doc, lo + 1, hi) ELSE lo

RECURSIVE StripRight(_, _, _)
StripRight(doc, lo, hi) ==
    IF lo <= hi /\ IsWhitespace(doc[hi]) THEN StripRight(doc, lo, hi - 1) ELSE hi

Strip(doc, p) ==
    LET lo == StripLeft(doc, p[1], p[2])
    IN  << lo, StripRight(doc, lo, p[2]) >>

\* _join_docs(docs, ""): the joined text stripped, None (here << >>) when empty
JoinDocsFirstOnly(doc, current) ==
    LET t == Strip(doc, current[1])
    IN  IF t[1] > t[2] THEN << >> ELSE << t >>

JoinDocs(doc, current) ==
    LET t == Strip(doc, << current[1][1], current[Len(current)][2] >>)
    IN  IF t[1] > t[2] THEN << >> ELSE << t >>

\* the inner while loop of _merge_splits: pop from the front of current_doc while
\* total > chunk_overlap, or while the next split still does not fit
RECURSIVE PopFront(_, _, _, _, _)
PopFront(current, total, len, size, overlap) ==
    IF total > overlap \/ (total + len > size /\ total > 0)
    THEN PopFront(Tail(current), total - PieceLen(current[1]), len, size, overlap)
    ELSE << current, total >>

\* _merge_splits(splits, separator="") from split i on
RECURSIVE MergeFrom(_, _, _, _, _, _, _, _)
MergeFrom(doc, splits, i, docs, current, total, size, overlap) ==
    IF i > Len(splits)
    THEN docs \o (IF current = << >> THEN << >> ELSE JoinDocs(doc, current))
    ELSE LET d == splits[i]
             len == PieceLen(d)
         IN  IF total + len > size /\ current # << >>
             THEN LET popped == PopFront(current, total, len, size, overlap)
                  IN  MergeFrom(doc, splits, i + 1, docs \o JoinDocs(doc, current),
                                Append(popped[1], d), popped[2] + len, size, overlap)
             ELSE MergeFrom(doc, splits, i + 1, docs,
                            Append(current, d), total + len, size, overlap)

MergeSplits(doc, splits, size, overlap) ==
    MergeFrom(doc, splits, 1, << >>, << >>, 0, size, overlap)

\* the first separator that is "" or occurs in the piece; 0 when there is none
PickSeparator(doc, seps, lo, hi) ==
    LET ok == {i \in 1..Len(seps) : seps[i] = << >> \/ Found(doc, seps[i], lo, hi)}
    IN  IF ok = {} THEN 0 ELSE CHOOSE i \in ok : \A j \in ok : i <= j

\* RecursiveCharacterTextSplitter._split_text(text, separators)
RECURSIVE SplitTextRec(_, _, _, _, _, _)
RECURSIVE SplitLoop(_, _, _, _, _, _, _, _)
SplitLoop(doc, splits, i, good, final, rest, size, overlap) ==
    IF i > Len(splits)
    THEN final \o (IF good = << >> THEN << >> ELSE MergeSplits(doc, good, size, overlap))
    ELSE LET s == splits[i]
         IN  IF PieceLen(s) < size
             THEN SplitLoop(doc, splits, i + 1, Append(good, s), final, rest, size, overlap)
             ELSE LET flushed == final \o (IF good = << >> THEN << >>
                                           ELSE MergeSplits(doc, good, size, overlap))
                      more == IF rest = << >> THEN << s >>
                              ELSE SplitTextRec(doc, s[1], s[2], rest, size, overlap)
                  IN  SplitLoop(doc, splits, i + 1, << >>, flushed \o more, rest, size, overlap)

SplitTextRec(doc, lo, hi, seps, size, overlap) ==
    LET k == PickSeparator(doc, seps, lo, hi)
        sep == IF k = 0 THEN seps[Len(seps)] ELSE seps[k]
        rest == IF k = 0 \/ sep = << >> THEN << >> ELSE SubSeq(seps, k + 1, Len(seps))
    IN  SplitLoop(doc, SplitWithRegex(doc, sep, lo, hi), 1, << >>, << >>, rest, size, overlap)

\* the chunks of one document: text_splitter.split_text(text)
SplitText(doc, size, overlap) ==
    SplitTextRec(doc, 1, Len(doc), Separators, size, overlap)

(***************************************************************************)
(* The state shared by the specifications.                                 *)
(***************************************************************************)
None == << >>

\* line 248
NoDocsAnswer == "No documents have been uploaded yet. Please upload documents first."

NoCall ==
    [op |-> "none", status |-> "-", answer |-> "", sources |-> << >>,
     question |-> "", fault |-> "none", retrieved |-> << >>, history |-> << >>,
     batch |-> << >>, documents_processed |-> 0, chunks_count |-> 0,
     was_fresh |-> FALSE, repeat |-> FALSE, loaded |-> FALSE,
     context |-> << >>]

\* the call was a query_rag that obtained an answer from the chain
Answered(call) ==
    /\ call.op = "query"
    /\ call.status = "return"
    /\ call.fault = "none"
    /\ call.answer # NoDocsAnswer

SplitterIdle ==
    [pc |-> "idle", text |-> << >>, chunk_size |-> 1, chunk_overlap |-> 0,
     chunks |-> << >>]

\* the requests the server handles at once, and the loop with none of them
Tasks == {"upload", "reset", "chat"}

LoopIdle == [pc |-> [t \in Tasks |-> "idle"], running |-> "-", batch |-> << >>]

RECURSIVE SeqsUpTo(_, _)
SeqsUpTo(S, n) ==
    IF n = 0 THEN {<< >>}
    ELSE LET shorter == SeqsUpTo(S, n - 1)
         IN  shorter \cup {Append(s, x) : s \in {t \in shorter : Len(t) = n - 1}, x \in S}

(***************************************************************************)
(* Inputs.  A file is its name, its extension, the text an extractor would *)
(* read from it, and whether reading it fails (a corrupt file).            *)
(***************************************************************************)
Files ==
    { [name |-> "a.txt", ext |-> ".txt", content |-> <<"a", "a", SP, "a", "a">>, corrupt |-> FALSE],
      [name |-> "b.txt", ext |-> ".txt", content |-> <<"a", "a">>, corrupt |-> FALSE],
      [name |-> "c.png", ext |-> ".png", content |-> <<"a", "a">>, corrupt |-> FALSE],
      [name |-> "d.txt", ext |-> ".txt", content |-> <<SP, NL>>, corrupt |-> FALSE],
      [name |-> "e.pdf", ext |-> ".pdf", content |-> <<"a", "a">>, corrupt |-> TRUE] }

\* the source names in lexicographic order
SourceOrder == << "a.txt", "b.txt", "c.png", "d.txt", "e.pdf" >>

\* the position of a source name in that order
NameRank(name) == CHOOSE i \in DOMAIN SourceOrder : SourceOrder[i] = name

\* the uploads: up to MaxBatch different files, listed by name (the entries
\* another order would give are those of uploading the files one by one)
Batches ==
    {b \in SeqsUpTo(Files, MaxBatch) :
        /\ b # << >>
        /\ \A i, j \in DOMAIN b : i < j => NameRank(b[i].name) < NameRank(b[j].name)}

Questions == {"q1", "q2"}
Answers == {"ans"}

ErrorAnswer(fault) ==
    CASE fault = "embedding" -> "An error occurred: embedding"
      [] fault = "generation" -> "An error occurred: generation"
      [] fault = "chain_build" -> "An error occurred: chain"
      [] OTHER -> "An error occurred: 'NoneType' object is not callable"

(***************************************************************************)
(* Extraction, lines 46-116.                                               *)
(***************************************************************************)
Extractors == {".pdf", ".docx", ".rtf", ".txt"}

\* extract_text_from_pdf/docx/rtf/txt: any exception is caught and gives ""
ExtractorText(file) == IF file.corrupt THEN << >> ELSE file.content

\* extract_text_from_file: no extractor for the extension gives ""
ExtractTextFromFile(file) ==
    IF file.ext \in Extractors THEN ExtractorText(file) ELSE << >>

\* text.strip() is truthy
HasText(text) == \E i \in DOMAIN text : ~IsWhitespace(text[i])

\* lines 136-145: the documents of the files with text, in batch order
DocumentsKeepAll(batch) ==
    [i \in 1..Len(batch) |->
        [page_content |-> ExtractTextFromFile(batch[i]), source |-> batch[i].name]]

Documents(batch) ==
    SelectSeq([i \in 1..Len(batch) |->
                  [page_content |-> ExtractTextFromFile(batch[i]),
                   source |-> batch[i].name]],
              LAMBDA d : HasText(d.page_content))

\* text_splitter.split_text under the configuration of lines 151-155, for each
\* text a file can hold
SplitTextTable ==
    [t \in {f.content : f \in Files} \cup {<< >>} |->
        SplitText(t, CHUNK_SIZE, CHUNK_OVERLAP)]

\* text_splitter.split_documents: the chunks of each document, in order, each
\* with its document's metadata
RECURSIVE SplitDocuments(_)
SplitDocuments(documents) ==
    IF documents = << >> THEN << >>
    ELSE LET d == documents[1]
             cs == SplitTextTable[d.page_content]
         IN  [i \in 1..Len(cs) |->
                 [source |-> d.source,
                  text |-> SubSeq(d.page_content, cs[i][1], cs[i][2])]]
             \o SplitDocuments(Tail(documents))

(***************************************************************************)
(* Chroma.  add_texts embeds every text of the call (embed_documents) and  *)
(* only then upserts them, so a failing embedding adds nothing.            *)
(***************************************************************************)
AddTextsPartial(entries, chunks, embed_ok) ==
    IF embed_ok THEN entries \o chunks
    ELSE entries \o SubSeq(chunks, 1, Len(chunks) - 1)

AddTextsRebuild(entries, chunks, embed_ok) ==
    IF embed_ok THEN chunks ELSE entries

AddTexts(entries, chunks, embed_ok) ==
    IF embed_ok THEN entries \o chunks ELSE entries

Chroma == << "chroma" >>
Chain == << "chain" >>

(***************************************************************************)
(* memory.py.  The memory object is None or the one-tuple holding the      *)
(* buffer's messages.                                                      *)
(***************************************************************************)
Human(text) == [role |-> "human", content |-> text]
AI(text) == [role |-> "ai", content |-> text]

\* get_memory, lines 13-31: the instance, created on first use
GetMemory(memory) == IF memory = None THEN << << >> >> ELSE memory

\* ConversationBufferMemory.save_context: the human then the AI message
SaveContextPrepend(memory, question, answer) ==
    << << Human(question), AI(answer) >> \o memory[1] >>

SaveContext(memory, question, answer) ==
    << memory[1] \o << Human(question), AI(answer) >> >>

\* memory.clear() of line 41
Cleared(memory) == << << >> >>

Messages(memory) == IF memory = None THEN << >> ELSE memory[1]

\* memory=memory of line 212: before it runs, the chain reads the buffer
\* (load_memory_variables) as its chat_history
LoadMemoryVariablesNothing(memory) == << >>

LoadMemoryVariables(memory) == Messages(memory)

\* the chain saves the turn (save_context) once its call has produced the
\* outputs; a call that raises, line 253, never gets there
ChainRaisedSavesTurn(memory, question, answer) ==
    SaveContext(memory, question, answer)

ChainRaised(memory, question, answer) == memory

(***************************************************************************)
(* Retrieval, line 211: the k nearest entries.  The similarity of the      *)
(* embedding service is stood in for by a fixed relevance of an entry to a *)
(* question, ties broken by the earlier entry.                             *)
(***************************************************************************)
Relevant(q, entry) ==
    \/ q = "q1" /\ entry.source = "a.txt"
    \/ q = "q2" /\ entry.source = "b.txt"

Min(a, b) == IF a < b THEN a ELSE b

RetrieveNearestOnly(q, entries) ==
    LET ranked == SelectSeq(entries, LAMBDA e : Relevant(q, e))
                  \o SelectSeq(entries, LAMBDA e : ~Relevant(q, e))
    IN  SubSeq(ranked, 1, Min(1, Len(ranked)))

Retrieve(q, entries) ==
    LET ranked == SelectSeq(entries, LAMBDA e : Relevant(q, e))
                  \o SelectSeq(entries, LAMBDA e : ~Relevant(q, e))
    IN  SubSeq(ranked, 1, Min(K, Len(ranked)))

\* line 256-257: the source of each retrieved document
SourcesOf(docs) == [i \in 1..Len(docs) |-> docs[i].source]

\* list(set(sources)), line 261: the distinct names, in whatever order the set
\* iterates
ListOfSetKeepsDuplicates(names) == { names }

ListOfSet(names) ==
    { s \in SeqsUpTo(Range(names), Cardinality(Range(names))) :
        Len(s) = Cardinality(Range(names)) /\ Range(s) = Range(names) }

\* lines 264-269: the except clause of query_rag
QueryExceptReraise(fault) ==
    [status |-> "raise", answer |-> "", sources |-> << >>]

QueryExcept(fault) ==
    [status |-> "return", answer |-> ErrorAnswer(fault), sources |-> << >>]

\* lines 233-235: nothing in memory and nothing on disk
NoStoreAnywhereAlwaysLoads(vectorstore, on_disk) == FALSE

NoStoreAnywhereIgnoresDisk(vectorstore, on_disk) == vectorstore = None

NoStoreAnywhere(vectorstore, on_disk) == vectorstore = None /\ ~on_disk

(***************************************************************************)
(* The chunking step taken alone, lines 151-156: a text that passed the    *)
(* test of line 139 and a splitter configuration are drawn, the splitter   *)
(* is built and applied.                                                   *)
(***************************************************************************)
InitChunk ==
    /\ _vectorstore = None
    /\ _qa_chain = None
    /\ _global_memory = None
    /\ disk_exists = FALSE
    /\ index = << >>
    /\ last = NoCall
    /\ appended = << >>
    /\ ingested = 0
    /\ fresh = FALSE
    /\ loop = LoopIdle
    /\ \E t \in {d \in SeqsUpTo(Chars, MaxDocLen) : HasText(d)},
          size \in 1..MaxChunkSize, overlap \in 0..MaxChunkSize :
          splitter = [pc |-> "input", text |-> t, chunk_size |-> size,
                      chunk_overlap |-> overlap, chunks |-> << >>]

\* TextSplitter.__init__ raises ValueError when chunk_overlap > chunk_size
SplitterRejected ==
    /\ splitter.pc = "input"
    /\ splitter.chunk_overlap > splitter.chunk_size
    /\ splitter' = [splitter EXCEPT !.pc = "error"]
    /\ UNCHANGED << _vectorstore, _qa_chain, _global_memory, disk_exists, index,
                    last, appended, ingested, fresh, loop >>

SplitDocument ==
    /\ splitter.pc = "input"
    /\ splitter.chunk_overlap <= splitter.chunk_size
    /\ splitter' = [splitter EXCEPT
                      !.pc = "done",
                      !.chunks = SplitText(splitter.text, splitter.chunk_size,
                                           splitter.chunk_overlap)]
    /\ UNCHANGED << _vectorstore, _qa_chain, _global_memory, disk_exists, index,
                    last, appended, ingested, fresh, loop >>

NextChunk == SplitterRejected \/ SplitDocument

SpecChunk == InitChunk /\ [][NextChunk]_vars

(***************************************************************************)
(* The backend.  Init is the state of a fresh process; the vectorstore     *)
(* directory may already be there, empty, from the installation.           *)
(***************************************************************************)
Init ==
    /\ _vectorstore = None
    /\ _qa_chain = None
    /\ _global_memory = None
    /\ disk_exists \in BOOLEAN
    /\ index = << >>
    /\ last = NoCall
    /\ appended = << >>
    /\ ingested = 0
    /\ fresh = FALSE
    /\ splitter = SplitterIdle
    /\ loop = LoopIdle

\* process_documents, lines 118-188.  embed_ok: whether the embedding service
\* answers for the texts of this call.
ProcessDocuments ==
    \E batch \in Batches, embed_ok \in BOOLEAN :
        LET documents == Documents(batch)
            chunks == SplitDocuments(documents)
            call == [NoCall EXCEPT !.op = "process", !.batch = batch,
                                   !.was_fresh = fresh]
        IN  /\ Len(index) + Len(chunks) <= MaxIndex
            /\ UNCHANGED << appended, splitter, loop >>
            /\ IF documents = << >>
               THEN \* line 148: ValueError, re-raised at line 188
                    /\ last' = [call EXCEPT !.status = "raise", !.fault = "no_text"]
                    /\ UNCHANGED << _vectorstore, _qa_chain, _global_memory,
                                    disk_exists, index, ingested, fresh >>
               ELSE IF ~embed_ok
               THEN \* add_documents or from_documents raises; from_documents has
                    \* opened the persistent collection before it embeds
                    /\ index' = AddTexts(index, chunks, FALSE)
                    /\ disk_exists' = (disk_exists \/ _vectorstore = None)
                    /\ last' = [call EXCEPT !.status = "raise", !.fault = "embedding"]
                    /\ UNCHANGED << _vectorstore, _qa_chain, _global_memory,
                                    ingested, fresh >>
               ELSE \* lines 166-184
                    /\ index' = AddTexts(index, chunks, TRUE)
                    /\ disk_exists' = (disk_exists \/ _vectorstore = None)
                    /\ _vectorstore' = Chroma
                    /\ _qa_chain' = Chain
                    /\ _global_memory' = GetMemory(_global_memory)
                    /\ last' = [call EXCEPT !.status = "ok",
                                            !.documents_processed = Len(documents),
                                            !.chunks_count = Len(chunks)]
                    /\ ingested' = ingested + Len(chunks)
                    /\ fresh' = FALSE

\* query_rag, lines 219-269.  fault: the collaborator call of the chain that
\* fails, if any; rephrased: the standalone question the LLM condenses from a
\* non-empty history; answer: the generated answer.
QueryRag ==
    \E question \in Questions, fault \in {"none", "embedding", "generation"},
       rephrased \in Questions, answer \in Answers :
        LET call == [NoCall EXCEPT !.op = "query", !.question = question,
                                   !.was_fresh = fresh,
                                   !.repeat = /\ Answered(last)
                                              /\ last.question = question,
                                   !.loaded = /\ _vectorstore = None
                                              /\ ~NoStoreAnywhere(_vectorstore,
                                                                  disk_exists)]
            loading == _vectorstore = None
            chain == IF loading THEN Chain ELSE _qa_chain
            memory == IF loading THEN GetMemory(_global_memory) ELSE _global_memory
            history == LoadMemoryVariables(memory)
            new_question == IF history = << >> THEN question ELSE rephrased
            docs == Retrieve(new_question, index)
        IN  /\ UNCHANGED << index, ingested, fresh, splitter, loop >>
            /\ IF NoStoreAnywhere(_vectorstore, disk_exists)
               THEN \* lines 247-250
                    /\ last' = [call EXCEPT !.status = "return",
                                            !.answer = NoDocsAnswer]
                    /\ UNCHANGED << _vectorstore, _qa_chain, _global_memory,
                                    disk_exists, appended >>
               ELSE \* lines 236-245, then the chain at line 253
                    /\ _vectorstore' = Chroma
                    /\ _qa_chain' = chain
                    /\ disk_exists' = (disk_exists \/ loading)
                    /\ IF chain = None \/ fault # "none"
                       THEN LET why == IF chain = None THEN "chain" ELSE fault
                                r == QueryExcept(why)
                            IN  /\ _global_memory' = ChainRaised(memory, question,
                                                                  r.answer)
                                /\ appended' = appended
                                /\ last' = [call EXCEPT !.status = r.status,
                                                        !.answer = r.answer,
                                                        !.sources = r.sources,
                                                        !.fault = why,
                                                        !.context =
                                                          IF chain = None THEN << >>
                                                          ELSE history]
                       ELSE \E sources \in ListOfSet(SourcesOf(docs)) :
                                /\ Len(history) + 2 <= 2 * MaxTurns
                                /\ _global_memory' = SaveContext(memory, question, answer)
                                /\ appended' = Append(appended, << question, answer >>)
                                /\ last' = [call EXCEPT !.status = "return",
                                                        !.answer = answer,
                                                        !.sources = sources,
                                                        !.retrieved = docs,
                                                        !.context = history]

\* reset_vectorstore, lines 271-282
ResetVectorstoreKeepsDisk ==
    /\ _vectorstore' = None
    /\ _qa_chain' = None
    /\ last' = [NoCall EXCEPT !.op = "reset", !.status = "return"]
    /\ ingested' = 0
    /\ fresh' = TRUE
    /\ UNCHANGED << disk_exists, index, _global_memory, appended, splitter, loop >>

ResetVectorstore ==
    /\ _vectorstore' = None
    /\ _qa_chain' = None
    /\ disk_exists' = FALSE
    /\ index' = << >>
    /\ last' = [NoCall EXCEPT !.op = "reset", !.status = "return"]
    /\ ingested' = 0
    /\ fresh' = TRUE
    /\ UNCHANGED << _global_memory, appended, splitter, loop >>

\* clear_memory, lines 33-44
ClearMemory ==
    /\ _global_memory' = IF _global_memory # None THEN Cleared(_global_memory)
                         ELSE _global_memory
    /\ appended' = << >>
    /\ last' = [NoCall EXCEPT !.op = "clear", !.status = "return"]
    /\ UNCHANGED << _vectorstore, _qa_chain, disk_exists, index,
                    ingested, fresh, splitter, loop >>

\* get_conversation_history, lines 46-54
GetConversationHistory ==
    /\ _global_memory' = GetMemory(_global_memory)
    /\ last' = [NoCall EXCEPT !.op = "history", !.status = "return",
                           !.history = Messages(GetMemory(_global_memory))]
    /\ UNCHANGED << _vectorstore, _qa_chain, disk_exists, index,
                    appended, ingested, fresh, splitter, loop >>

\* add_to_memory, lines 56-69
AddToMemory ==
    \E question \in Questions, answer \in Answers :
        /\ Len(Messages(_global_memory)) + 2 <= 2 * MaxTurns
        /\ _global_memory' = SaveContext(GetMemory(_global_memory), question, answer)
        /\ appended' = Append(appended, << question, answer >>)
        /\ last' = [NoCall EXCEPT !.op = "add_to_memory", !.status = "return",
                               !.question = question, !.answer = answer]
        /\ UNCHANGED << _vectorstore, _qa_chain, disk_exists, index,
                        ingested, fresh, splitter, loop >>

\* the process ends and starts again: the module globals of lines 43-44 and of
\* memory.py line 11 are None again, what is on disk stays
Restart ==
    /\ _vectorstore' = None
    /\ _qa_chain' = None
    /\ _global_memory' = None
    /\ appended' = << >>
    /\ last' = [NoCall EXCEPT !.op = "restart"]
    /\ UNCHANGED << disk_exists, index, ingested, fresh, splitter, loop >>

Next ==
    \/ ProcessDocuments
    \/ QueryRag
    \/ ResetVectorstore
    \/ ClearMemory
    \/ GetConversationHistory
    \/ AddToMemory
    \/ Restart

Spec == Init /\ [][Next]_vars

(***************************************************************************)
(* The backend when create_qa_chain, lines 178-217, may raise: the         *)
(* constructor of the LLM client (line 190) or of the chain (line 207)     *)
(* fails after the index was written or loaded.                            *)
(***************************************************************************)
\* process_documents: lines 166-175 succeed, line 178 raises, line 188 re-raises
ProcessDocumentsBuildFails ==
    \E batch \in Batches :
        LET documents == Documents(batch)
            chunks == SplitDocuments(documents)
            call == [NoCall EXCEPT !.op = "process", !.batch = batch,
                                   !.was_fresh = fresh]
        IN  /\ documents # << >>
            /\ Len(index) + Len(chunks) <= MaxIndex
            /\ index' = AddTexts(index, chunks, TRUE)
            /\ disk_exists' = (disk_exists \/ _vectorstore = None)
            /\ _vectorstore' = Chroma
            /\ _global_memory' \in {_global_memory, GetMemory(_global_memory)}
            /\ last' = [call EXCEPT !.status = "raise", !.fault = "chain_build"]
            /\ UNCHANGED << _qa_chain, appended, ingested, fresh, splitter, loop >>

\* query_rag: lines 236-243 load the index, line 244 raises, lines 264-269
\* return the failure
QueryRagBuildFails ==
    \E question \in Questions :
        LET r == QueryExcept("chain_build")
        IN  /\ _vectorstore = None
            /\ disk_exists
            /\ _vectorstore' = Chroma
            /\ _global_memory' \in {_global_memory, GetMemory(_global_memory)}
            /\ last' = [NoCall EXCEPT !.op = "query", !.question = question,
                                      !.was_fresh = fresh, !.loaded = TRUE,
                                      !.status = r.status, !.answer = r.answer,
                                      !.sources = r.sources,
                                      !.fault = "chain_build"]
            /\ UNCHANGED << _qa_chain, disk_exists, index, appended, ingested,
                            fresh, splitter, loop >>

NextBuildFails ==
    \/ Next
    \/ ProcessDocumentsBuildFails
    \/ QueryRagBuildFails

SpecBuildFails == Init /\ [][NextBuildFails]_vars

(***************************************************************************)
(* The server, main.py: requests arrive while others are being handled.    *)
(* Each handler is taken statement by statement; a call to a collaborator  *)
(* (the embedding of an upload, the chain of a chat) waits for its         *)
(* response, which may never come.  loop.pc[t] is the position of request  *)
(* t, loop.running the handler that holds the event loop.                  *)
(***************************************************************************)
\* the uploads of the server: one file each
ServerBatches == {b \in Batches : Len(b) = 1}

ServerQuestion == "q1"
ServerAnswer == "ans"

\* main.py lines 49, 92, 143, and uvicorn.run of line 169: every handler is an
\* async def whose body calls the pipeline synchronously, without an await, on
\* the one event loop of the one worker; a handler that started keeps the loop
\* until it returns
MayRunInThreads(t, running) == TRUE

MayRun(t, running) == running \in {"-", t}

At(t, pc) == loop.pc[t] = pc /\ MayRun(t, loop.running)

Goto(t, pc) ==
    [loop EXCEPT !.pc[t] = pc, !.running = IF pc = "idle" THEN "-" ELSE t]

\* a request is sent to the server
Arrive(t) ==
    /\ loop.pc[t] = "idle"
    /\ \E b \in ServerBatches :
          /\ t = "upload"
             => Len(index) + Len(SplitDocuments(Documents(b))) <= MaxIndex
          /\ t = "chat" => Len(Messages(_global_memory)) + 2 <= 2 * MaxTurns
          /\ loop' = [loop EXCEPT !.pc[t] = "arrived",
                                  !.batch = IF t = "upload" THEN b ELSE @]
    /\ UNCHANGED << _vectorstore, _qa_chain, _global_memory, disk_exists, index,
                    last, appended, ingested, fresh, splitter >>

\* process_documents, lines 134-163: extraction and chunking
UploadExtract ==
    /\ At("upload", "arrived")
    /\ loop' = IF Documents(loop.batch) = << >>
               THEN Goto("upload", "idle")
               ELSE Goto("upload", "store")
    /\ UNCHANGED << _vectorstore, _qa_chain, _global_memory, disk_exists, index,
                    last, appended, ingested, fresh, splitter >>

\* lines 166-173: add_documents or from_documents starts; from_documents opens
\* the persistent collection, then both call the embedding service
UploadStore ==
    /\ At("upload", "store")
    /\ disk_exists' = (disk_exists \/ _vectorstore = None)
    /\ loop' = Goto("upload", "embed")
    /\ UNCHANGED << _vectorstore, _qa_chain, _global_memory, index,
                    last, appended, ingested, fresh, splitter >>

\* the embedding service responds: the entries are written and line 169
\* assigns the handle, or the call raises
EmbeddingResponds ==
    \E embed_ok \in BOOLEAN :
        /\ At("upload", "embed")
        /\ index' = AddTexts(index, SplitDocuments(Documents(loop.batch)), embed_ok)
        /\ _vectorstore' = IF embed_ok THEN Chroma ELSE _vectorstore
        /\ loop' = IF embed_ok THEN Goto("upload", "chain")
                   ELSE Goto("upload", "idle")
        /\ UNCHANGED << _qa_chain, _global_memory, disk_exists,
                        last, appended, ingested, fresh, splitter >>

\* lines 178-184
UploadChain ==
    /\ At("upload", "chain")
    /\ _qa_chain' = Chain
    /\ _global_memory' = GetMemory(_global_memory)
    /\ ingested' = ingested + Len(SplitDocuments(Documents(loop.batch)))
    /\ fresh' = FALSE
    /\ loop' = Goto("upload", "idle")
    /\ UNCHANGED << _vectorstore, disk_exists, index, last, appended, splitter >>

\* reset_vectorstore, line 275
ResetStore ==
    /\ At("reset", "arrived")
    /\ _vectorstore' = None
    /\ loop' = Goto("reset", "chain")
    /\ UNCHANGED << _qa_chain, _global_memory, disk_exists, index,
                    last, appended, ingested, fresh, splitter >>

\* line 276
ResetChain ==
    /\ At("reset", "chain")
    /\ _qa_chain' = None
    /\ loop' = Goto("reset", "remove")
    /\ UNCHANGED << _vectorstore, _global_memory, disk_exists, index,
                    last, appended, ingested, fresh, splitter >>

\* lines 279-282
ResetRemove ==
    /\ At("reset", "remove")
    /\ disk_exists' = FALSE
    /\ index' = << >>
    /\ ingested' = 0
    /\ fresh' = TRUE
    /\ loop' = Goto("reset", "idle")
    /\ UNCHANGED << _vectorstore, _qa_chain, _global_memory,
                    last, appended, splitter >>

\* query_rag, lines 233-250
ChatCheck ==
    /\ At("chat", "arrived")
    /\ _vectorstore' = IF NoStoreAnywhere(_vectorstore, disk_exists)
                       THEN _vectorstore ELSE Chroma
    /\ loop' = IF NoStoreAnywhere(_vectorstore, disk_exists)
               THEN Goto("chat", "idle")
               ELSE IF _vectorstore = None THEN Goto("chat", "build")
               ELSE Goto("chat", "call")
    /\ UNCHANGED << _qa_chain, _global_memory, disk_exists, index,
                    last, appended, ingested, fresh, splitter >>

\* line 244
ChatBuild ==
    /\ At("chat", "build")
    /\ _qa_chain' = Chain
    /\ _global_memory' = GetMemory(_global_memory)
    /\ loop' = Goto("chat", "call")
    /\ UNCHANGED << _vectorstore, disk_exists, index,
                    last, appended, ingested, fresh, splitter >>

\* line 253: the chain is called; calling None raises and is caught
ChatCall ==
    /\ At("chat", "call")
    /\ loop' = IF _qa_chain = None THEN Goto("chat", "idle")
               ELSE Goto("chat", "answer")
    /\ UNCHANGED << _vectorstore, _qa_chain, _global_memory, disk_exists, index,
                    last, appended, ingested, fresh, splitter >>

\* the services of the chain respond: the turn is saved and the result
\* returned, lines 255-262, or the call raises, lines 264-269
ChainResponds ==
    \E ok \in BOOLEAN :
        /\ At("chat", "answer")
        /\ _global_memory' =
              IF ok THEN SaveContext(GetMemory(_global_memory),
                                     ServerQuestion, ServerAnswer)
              ELSE ChainRaised(_global_memory, ServerQuestion,
                               ErrorAnswer("generation"))
        /\ appended' = IF ok THEN Append(appended, << ServerQuestion, ServerAnswer >>)
                       ELSE appended
        /\ loop' = Goto("chat", "idle")
        /\ UNCHANGED << _vectorstore, _qa_chain, disk_exists, index,
                        last, ingested, fresh, splitter >>

\* the steps the server itself takes
HandlerStep ==
    \/ UploadExtract
    \/ UploadStore
    \/ UploadChain
    \/ ResetStore
    \/ ResetChain
    \/ ResetRemove
    \/ ChatCheck
    \/ ChatBuild
    \/ ChatCall

NextServer ==
    \/ \E t \in Tasks : Arrive(t)
    \/ HandlerStep
    \/ EmbeddingResponds
    \/ ChainResponds

\* the event loop runs a handler that can take a step; nothing makes a
\* collaborator respond
SpecServer == Init /\ [][NextServer]_vars /\ WF_vars(HandlerStep)

(***************************************************************************)
(* Properties.                                                             *)
(***************************************************************************)
RECURSIVE TurnsToMessages(_)
TurnsToMessages(turns) ==
    IF turns = << >> THEN << >>
    ELSE << Human(turns[1][1]), AI(turns[1][2]) >> \o TurnsToMessages(Tail(turns))

NoDuplicates(s) == \A i, j \in DOMAIN s : i # j => s[i] # s[j]

Sorted(names) ==
    \A i, j \in DOMAIN names : i < j => NameRank(names[i]) < NameRank(names[j])

\* C1: a query_rag made with no index in process memory and none on disk returns
\* the fixed "no documents" answer with no sources and leaves the conversation
\* memory as it was.
C1_ColdQuery ==
    [][ (last'.op = "query" /\ _vectorstore = None /\ ~disk_exists)
        => /\ last'.status = "return"
           /\ last'.answer = NoDocsAnswer
           /\ last'.sources = << >>
           /\ _global_memory' = _global_memory
           /\ appended' = appended ]_vars

C1_Witness ==
    /\ last.op = "query"
    /\ last.answer = NoDocsAnswer
    /\ _vectorstore = None
    /\ ~disk_exists
    /\ Messages(_global_memory) # << >>

\* C2: query_rag never raises; a failing embedding or generation call gives a
\* returned result whose answer describes the failure and whose sources are empty.
C2_QueryNeverRaises ==
    last.op = "query"
    => /\ last.status = "return"
       /\ last.fault # "none"
          => /\ last.sources = << >>
             /\ last.answer = ErrorAnswer(last.fault)

C2_Witness ==
    /\ last.op = "query"
    /\ last.fault = "generation"
    /\ last.status = "return"
    /\ index # << >>

\* C3 as stated: the sources of an answered query are the source names of the
\* retrieved chunks, each exactly once, in lexicographic order.
C3_SourcesSorted ==
    Answered(last)
    => /\ Range(last.sources) = Range(SourcesOf(last.retrieved))
       /\ NoDuplicates(last.sources)
       /\ Sorted(last.sources)

\* C3 as amended: the sources of an answered query are the source names of the
\* retrieved chunks, each exactly once (none missing, none added), in no
\* particular order.
C3_SourcesDistinct ==
    Answered(last)
    => /\ Range(last.sources) = Range(SourcesOf(last.retrieved))
       /\ NoDuplicates(last.sources)

C3_Witness ==
    /\ Answered(last)
    /\ Len(last.sources) = 2
    /\ Len(last.retrieved) > 2

\* C4: the history read from the memory is the turns appended since the last
\* clear, oldest first, none lost, duplicated or reordered; it is empty right
\* after clear_memory.
C4_HistoryIsAppendedTurns ==
    /\ Messages(_global_memory) = TurnsToMessages(appended)
    /\ last.op = "history" => last.history = TurnsToMessages(appended)
    /\ last.op = "clear" => Messages(_global_memory) = << >>

C4_Witness ==
    /\ last.op = "history"
    /\ Len(last.history) = 4
    /\ last.history[1].content # last.history[3].content

C6_FailedBatchAddsNothing ==
    [][ (last'.op = "process" /\ last'.fault = "embedding")
        => /\ last'.status = "raise"
           /\ index' = index
           /\ ingested' = ingested ]_vars

C6_Witness ==
    /\ last.op = "process"
    /\ last.fault = "embedding"
    /\ index # << >>
    /\ \E i \in DOMAIN last.batch : last.batch[i].name = "a.txt"

FilesWithText(batch) ==
    {i \in DOMAIN batch :
        /\ batch[i].ext \in {".pdf", ".docx", ".rtf", ".txt"}
        /\ ~batch[i].corrupt
        /\ \E k \in DOMAIN batch[i].content : batch[i].content[k] \notin {SP, NL}}

Covered(chunks) == UNION {chunks[i][1]..chunks[i][2] : i \in DOMAIN chunks}

\* a later chunk neither starts nor ends before an earlier one
InDocumentOrder(chunks) ==
    \A i, j \in DOMAIN chunks :
        i < j => chunks[i][1] <= chunks[j][1] /\ chunks[i][2] <= chunks[j][2]

SplitDone == splitter.pc = "done" /\ splitter.chunk_overlap < splitter.chunk_size

\* C9 as stated: with overlap < chunk_size the chunks cover every character
\* position of the text, none is longer than chunk_size, and they come in
\* document order.
C9_ChunksCoverEverything ==
    SplitDone
    => /\ Covered(splitter.chunks) = DOMAIN splitter.text
       /\ \A i \in DOMAIN splitter.chunks :
             PieceLen(splitter.chunks[i]) <= splitter.chunk_size
       /\ InDocumentOrder(splitter.chunks)

\* C9 as amended: with overlap < chunk_size the chunks cover every position of
\* the text that holds a character other than white space (the splitter strips
\* the white space at the ends of a chunk), none is longer than chunk_size, and
\* they come in document order.
C9_ChunksCoverText ==
    SplitDone
    => /\ Covered(splitter.chunks) \subseteq DOMAIN splitter.text
       /\ \A p \in DOMAIN splitter.text :
             ~IsWhitespace(splitter.text[p]) => p \in Covered(splitter.chunks)
       /\ \A i \in DOMAIN splitter.chunks :
             /\ 1 <= PieceLen(splitter.chunks[i])
             /\ PieceLen(splitter.chunks[i]) <= splitter.chunk_size
       /\ InDocumentOrder(splitter.chunks)

C9_Witness ==
    /\ SplitDone
    /\ Len(splitter.chunks) >= 2
    /\ splitter.chunk_overlap > 0
    /\ Covered(splitter.chunks) # DOMAIN splitter.text
    /\ \E i \in 1..(Len(splitter.chunks) - 1) :
          splitter.chunks[i][2] >= splitter.chunks[i + 1][1]

\* C10 as stated: a query_rag repeated with the same question right after an
\* answered one, the index unchanged, returns the same set of sources.
C10_SameSources ==
    [][ (Answered(last) /\ Answered(last') /\ last'.question = last.question)
        => Range(last'.sources) = Range(last.sources) ]_vars

\* C10 as amended: it returns the same set of sources when the index holds at
\* most k = 4 chunks; over a larger index the second call retrieves with the
\* question the LLM condenses from the history, and its sources may differ.
C10_SameSourcesSmallIndex ==
    [][ (Answered(last) /\ Answered(last') /\ last'.question = last.question
         /\ Len(index) <= K)
        => Range(last'.sources) = Range(last.sources) ]_vars

C10_Witness ==
    /\ Answered(last)
    /\ last.repeat
    /\ Len(index) = K
    /\ Len(last.sources) = 2

C13_AnsweredQueryAppendsTurn ==
    [][ Answered(last')
        => /\ Messages(_global_memory')
              = Messages(_global_memory)
                \o << Human(last'.question), AI(last'.answer) >>
           /\ last'.context = Messages(_global_memory)
           /\ last'.context = TurnsToMessages(appended)
           /\ appended' = Append(appended, << last'.question, last'.answer >>) ]_vars

C13_Witness ==
    /\ Answered(last)
    /\ Len(last.context) = 2
    /\ last.context[1] = Human("q1")
    /\ last.question = "q2"
    /\ Len(Messages(_global_memory)) = 4

\* C14 as stated: after a query_rag whose embedding or generation call failed,
\* the history ends with the human turn of that question and an AI turn with
\* the failure answer, and the result has no sources.
C14_FailedTurnAppended ==
    [][ (last'.op = "query" /\ last'.fault \in {"embedding", "generation"})
        => /\ last'.sources = << >>
           /\ Messages(_global_memory')
              = Messages(_global_memory)
                \o << Human(last'.question), AI(last'.answer) >> ]_vars

\* C14 as amended: a query_rag whose embedding or generation call failed
\* returns the failure answer with no sources and appends nothing: the history
\* is what it was before the call.
C14_FailedTurnNotAppended ==
    [][ (last'.op = "query" /\ last'.fault \in {"embedding", "generation"})
        => /\ last'.status = "return"
           /\ last'.answer = ErrorAnswer(last'.fault)
           /\ last'.sources = << >>
           /\ Messages(_global_memory') = Messages(_global_memory)
           /\ appended' = appended ]_vars

C14_Witness ==
    /\ last.op = "query"
    /\ last.fault = "generation"
    /\ Len(Messages(_global_memory)) = 2
    /\ last.context = Messages(_global_memory)
    /\ index # << >>

\* a request whose handler has started and not yet returned
PartWay(t) == loop.pc[t] \notin {"idle", "arrived"}

C15_CallsAreBounded ==
    /\ (loop.pc["upload"] = "embed") ~> (loop.pc["upload"] = "idle")
    /\ (loop.pc["chat"] = "answer") ~> (loop.pc["chat"] = "idle")

\* C16: after any calls, those that fail part-way included, the module holds a
\* chain exactly when it holds an index handle, and query_rag never calls a
\* chain that is missing.
C16_ChainIffStore ==
    /\ (_qa_chain = None) <=> (_vectorstore = None)
    /\ last.op = "query" => last.fault # "chain"

====
